---------------------------- MODULE Spec2Model ----------------------------
(***************************************************************************)
(* Session state machine of the quiz application (src/App.tsx): the React  *)
(* state of the App component, its event handlers and the completions of   *)
(* the asynchronous operations they start (file loads, the analysis timer, *)
(* page-range extraction, the question generator call).                    *)
(*                                                                         *)
(* JavaScript strings are sequences of tokens (<<>> is the empty string),  *)
(* so that concatenation, joins, startsWith/endsWith and truthiness are    *)
(* computed.  A value that may be null is NULL or a tagged record.         *)
(* An event handler runs to completion on the state of the render that     *)
(* created it; the continuation of an async handler keeps the values its   *)
(* closure captured when the handler was called.                           *)
(***************************************************************************)
EXTENDS Integers, Sequences, FiniteSets, TLC

\* ------------------------------------------------------------- bounds
\* Outstanding asynchronous operations (loads, timers, extractions, calls).
MaxPending == 2
\* Pages of the larger PDF offered to the file picker.
MaxPages == 4
\* Longest question list the generator returns.
MaxQuestions == 2

\* ------------------------------------------------- program constants
DefaultQuestionCount == 5
MinQuestionCount == 1
MaxQuestionCount == 10

\* ------------------------------------------------------------- values
NULL == [null |-> TRUE]
Str(s) == [string |-> s]
ImagePart(data, mimeType) == [inlineData |-> [data |-> data, mimeType |-> mimeType]]

IsString(v) == DOMAIN v = {"string"}
\* JavaScript truthiness of a StudyMaterial | null: null and '' are falsy.
Truthy(v) == v # NULL /\ (IsString(v) => v.string # <<>>)

StartsWith(s, prefix) == Len(s) >= 1 /\ s[1] = prefix
EndsWith(s, suffix) == Len(s) >= 1 /\ s[Len(s)] = suffix

\* useLocalization's t(key): the translated message for key.
t(key) == <<"t", key>>

\* Array.prototype.join(sep) on an array of strings.
RECURSIVE Join(_, _)
Join(items, sep) ==
    IF items = <<>> THEN <<>>
    ELSE IF Len(items) = 1 THEN items[1]
    ELSE items[1] \o sep \o Join(Tail(items), sep)

EmptyMap == [i \in {} |-> <<>>]
\* { ...prev, [k]: v }
Put(m, k, v) == [i \in DOMAIN m \cup {k} |-> IF i = k THEN v ELSE m[i]]

RemoveAt(s, i) == [j \in 1..(Len(s) - 1) |-> IF j < i THEN s[j] ELSE s[j + 1]]

\* ------------------------------------------------------------- inputs
\* The text items of page i of a PDF, as pdf.js returns them.
PageItems(i) ==
    IF i % 2 = 1 THEN << <<"p" \o ToString(i)>>, <<"q" \o ToString(i)>> >>
    ELSE << <<"p" \o ToString(i)>> >>

\* A File: its name and media type, whether its bytes can be read and decoded,
\* its pages (a PDF) and its decoded content (any other kind).
File(name, type, readable, pages, bytes) ==
    [name |-> name, type |-> type, readable |-> readable, pages |-> pages,
     bytes |-> bytes]

ImageFile == File(<<"scan", ".png">>, <<"image/", "png">>, TRUE, <<>>, <<"pixels">>)
BigPdf == File(<<"book", ".pdf">>, <<"application/pdf">>, TRUE,
               [i \in 1..MaxPages |-> PageItems(i)], <<>>)
SmallPdf == File(<<"leaflet", ".pdf">>, <<"application/pdf">>, TRUE,
                 <<PageItems(1)>>, <<>>)
CorruptPdf == File(<<"broken", ".pdf">>, <<"application/pdf">>, FALSE, <<>>, <<>>)
TextFile == File(<<"notes", ".txt">>, <<"text/plain">>, TRUE, <<>>, <<"notes">>)
WordFile == File(<<"essay", ".docx">>, <<"application/msword">>, TRUE, <<>>, <<"essay">>)
OtherFile == File(<<"tool", ".exe">>, <<"application/", "octet-stream">>, TRUE, <<>>, <<>>)

Files == {ImageFile, BigPdf, SmallPdf, CorruptPdf, TextFile, WordFile, OtherFile}
\* The files offered to the picker in the quiz sessions.
QuizFiles == {TextFile, CorruptPdf}

\* What the user may type into the textarea and the number inputs.
TypedTexts == {<<>>, <<"typed">>}
PageInputs == 0..(MaxPages + 1)
CountInputs == {MinQuestionCount, DefaultQuestionCount}

QuestionTypes == {"multiple-choice", "true-false"}

McQuestion == [question |-> <<"mc?">>, options |-> << <<"a">>, <<"b">> >>,
               correctAnswer |-> <<"b">>]
TfQuestion == [question |-> <<"tf?">>, answer |-> TRUE]
TfFalseQuestion == [question |-> <<"tf-no?">>, answer |-> FALSE]
BareQuestion == [question |-> <<"bare?">>]
QuestionPool == {McQuestion, TfQuestion, TfFalseQuestion, BareQuestion}

\* The arrays the generator may answer with (JSON.parse of the response).
GenResults == UNION {[1..n -> QuestionPool] : n \in 0..MaxQuestions}

Stages == {"Welcome", "Upload", "Processing", "SelectPageRange", "SelectType",
           "SelectCount", "Generating", "Answering", "Completed"}

\* -------------------------------------------------------------- state
VARIABLES
    stage, studyMaterial, questionType, questionCount, questions,
    currentQuestionIndex, userAnswers, feedback, error,
    isParsing, fileName, file, totalPages, startPage, endPage,
    loads,        \* processFile calls awaiting their file read
    timers,       \* setTimeout callbacks of handleAnalyze not yet run
    extractions,  \* handleConfirmPageRange calls awaiting the PDF reader
    generations,  \* handleGenerateQuestions calls awaiting the generator
    last          \* the handler or completion that ran last, with its inputs

quiz == <<questionType, questionCount, questions, currentQuestionIndex,
          userAnswers, feedback>>
upload == <<isParsing, fileName, file, totalPages, startPage, endPage>>
pending == <<loads, timers, extractions, generations>>
session == <<stage, studyMaterial, error, quiz, upload>>
vars == <<session, pending, last>>

Pending == Len(loads) + timers + Len(extractions) + Len(generations)

Init ==
    /\ stage = "Welcome"
    /\ studyMaterial = NULL
    /\ questionType = "null"
    /\ questionCount = DefaultQuestionCount
    /\ questions = <<>>
    /\ currentQuestionIndex = 0
    /\ userAnswers = EmptyMap
    /\ feedback = EmptyMap
    /\ error = NULL
    /\ isParsing = FALSE
    /\ fileName = <<>>
    /\ file = NULL
    /\ totalPages = 0
    /\ startPage = 1
    /\ endPage = 1
    /\ loads = <<>>
    /\ timers = 0
    /\ extractions = <<>>
    /\ generations = <<>>
    /\ last = [op |-> "init"]

\* ------------------------------------------------------- file loading
\* renderUpload shows the loaded-file panel instead of the upload form.
LoadedFileView == fileName # <<>> /\ ~isParsing
UploadFormView == stage = "Upload" /\ ~LoadedFileView

\* The branch of processFile a file takes.
FileKind(f) ==
    IF StartsWith(f.type, "image/") THEN "image"
    ELSE IF f.type = <<"application/pdf">> THEN "pdf"
    ELSE IF EndsWith(f.name, ".docx") THEN "docx"
    ELSE IF f.type = <<"text/plain">> THEN "text"
    ELSE "unsupported"

\* reader.result.split(',')[1] of the data URL of the file.
fileToBase64(f) == <<"base64">> \o f.bytes

\* handleAnalyze without the test of the study material.
handleAnalyze_WithoutMaterialTest(sm) ==
    /\ error' = NULL
    /\ stage' = "Processing"
    /\ timers' = timers + 1

\* handleAnalyze as seen by a closure whose studyMaterial is sm.
handleAnalyze(sm) ==
    IF ~Truthy(sm)
    THEN /\ error' = Str(t("error_no_text"))
         /\ UNCHANGED <<stage, timers>>
    ELSE /\ error' = NULL
         /\ stage' = "Processing"
         /\ timers' = timers + 1

\* The catch block of processFile.
ProcessFileCatch ==
    /\ error' = Str(t("error_parsing_failed"))
    /\ fileName' = <<>>
    /\ file' = NULL
    /\ isParsing' = FALSE
    /\ stage' = "Upload"

\* processFile(f) up to its first await.  An unsupported kind throws before
\* any await, so its catch block runs in the same event.
processFile(f, op) ==
    /\ studyMaterial' = NULL
    /\ IF FileKind(f) = "unsupported"
       THEN /\ ProcessFileCatch
            /\ UNCHANGED loads
            /\ last' = [op |-> op, file |-> f, outcome |-> "unsupported"]
       ELSE /\ isParsing' = TRUE
            /\ fileName' = f.name
            /\ error' = NULL
            /\ file' = f
            /\ loads' = Append(loads, [file |-> f, studyMaterial |-> studyMaterial])
            /\ UNCHANGED stage
            /\ last' = [op |-> op, file |-> f, outcome |-> "reading"]
    /\ UNCHANGED <<quiz, totalPages, startPage, endPage, timers, extractions,
                   generations>>

handleFileChange(f) ==
    /\ UploadFormView /\ ~isParsing
    /\ Pending < MaxPending
    /\ processFile(f, "handleFileChange")

handleDrop(f) ==
    /\ UploadFormView
    /\ Pending < MaxPending
    /\ processFile(f, "handleDrop")

\* fileToBase64 resolved: lines 69-77.
LoadImageDone(i) ==
    LET l == loads[i] IN
    /\ FileKind(l.file) = "image" /\ l.file.readable
    /\ studyMaterial' = ImagePart(fileToBase64(l.file), l.file.type)
    /\ isParsing' = FALSE
    /\ handleAnalyze(l.studyMaterial)
    /\ loads' = RemoveAt(loads, i)
    /\ last' = [op |-> "loadImage", file |-> l.file, closure |-> l.studyMaterial]
    /\ UNCHANGED <<quiz, fileName, file, totalPages, startPage, endPage,
                   extractions, generations>>

\* LoadPdfDone with the end page left at its initial value.
LoadPdfDone_KeepsEndPage(i) ==
    LET l == loads[i] IN
    /\ FileKind(l.file) = "pdf" /\ l.file.readable
    /\ totalPages' = Len(l.file.pages)
    /\ startPage' = 1
    /\ stage' = "SelectPageRange"
    /\ isParsing' = FALSE
    /\ loads' = RemoveAt(loads, i)
    /\ last' = [op |-> "loadPdf", file |-> l.file]
    /\ UNCHANGED <<studyMaterial, error, quiz, fileName, file, endPage, timers,
                   extractions, generations>>

\* getDocument resolved: lines 83-88.
LoadPdfDone(i) ==
    LET l == loads[i] IN
    /\ FileKind(l.file) = "pdf" /\ l.file.readable
    /\ totalPages' = Len(l.file.pages)
    /\ startPage' = 1
    /\ endPage' = Len(l.file.pages)
    /\ stage' = "SelectPageRange"
    /\ isParsing' = FALSE
    /\ loads' = RemoveAt(loads, i)
    /\ last' = [op |-> "loadPdf", file |-> l.file]
    /\ UNCHANGED <<studyMaterial, error, quiz, fileName, file, timers,
                   extractions, generations>>

\* mammoth.extractRawText or file.text resolved: lines 102-104.
LoadTextDone(i) ==
    LET l == loads[i] IN
    /\ FileKind(l.file) \in {"docx", "text"} /\ l.file.readable
    /\ studyMaterial' = Str(l.file.bytes)
    /\ isParsing' = FALSE
    /\ handleAnalyze(l.studyMaterial)
    /\ loads' = RemoveAt(loads, i)
    /\ last' = [op |-> "loadText", file |-> l.file, closure |-> l.studyMaterial]
    /\ UNCHANGED <<quiz, fileName, file, totalPages, startPage, endPage,
                   extractions, generations>>

\* An awaited read rejected: lines 106-113.
LoadFailed(i) ==
    LET l == loads[i] IN
    /\ ~l.file.readable
    /\ ProcessFileCatch
    /\ loads' = RemoveAt(loads, i)
    /\ last' = [op |-> "loadFailed", file |-> l.file]
    /\ UNCHANGED <<studyMaterial, quiz, totalPages, startPage, endPage, timers,
                   extractions, generations>>

\* ------------------------------------------------------- upload stage
Start ==
    /\ stage = "Welcome"
    /\ stage' = "Upload"
    /\ last' = [op |-> "start"]
    /\ UNCHANGED <<studyMaterial, error, quiz, upload, pending>>

TextareaReadOnly == isParsing \/ ~IsString(studyMaterial)

\* The textarea's onChange: lines 413-419.
HandleTextChange(v) ==
    /\ UploadFormView /\ ~TextareaReadOnly
    /\ v # studyMaterial.string
    /\ studyMaterial' = Str(v)
    /\ IF fileName # <<>>
       THEN fileName' = <<>> /\ file' = NULL
       ELSE UNCHANGED <<fileName, file>>
    /\ last' = [op |-> "textChange", value |-> v]
    /\ UNCHANGED <<stage, error, quiz, isParsing, totalPages, startPage, endPage,
                   pending>>

AnalyzeButtonEnabled ==
    /\ stage = "Upload"
    /\ LoadedFileView \/ ~(isParsing \/ (~Truthy(studyMaterial) /\ file = NULL))

\* A click on the analyze button of either upload panel.
ClickAnalyze ==
    /\ AnalyzeButtonEnabled
    /\ Pending < MaxPending
    /\ handleAnalyze(studyMaterial)
    /\ last' = [op |-> "handleAnalyze", closure |-> studyMaterial]
    /\ UNCHANGED <<studyMaterial, quiz, upload, loads, extractions, generations>>

\* The timer callback of handleAnalyze: line 154.
TimerFired ==
    /\ timers > 0
    /\ timers' = timers - 1
    /\ stage' = "SelectType"
    /\ last' = [op |-> "timer"]
    /\ UNCHANGED <<studyMaterial, error, quiz, upload, loads, extractions,
                   generations>>

handleResetUpload ==
    /\ studyMaterial' = NULL
    /\ fileName' = <<>>
    /\ file' = NULL
    /\ totalPages' = 0
    /\ startPage' = 1
    /\ endPage' = 1
    /\ error' = NULL

\* "Upload another file" on the loaded-file panel.
ClickResetUpload ==
    /\ stage = "Upload" /\ LoadedFileView
    /\ handleResetUpload
    /\ last' = [op |-> "handleResetUpload"]
    /\ UNCHANGED <<stage, quiz, isParsing, pending>>

\* The close control of the error banner: line 658.
DismissError ==
    /\ error # NULL /\ error.string # <<>>
    /\ error' = NULL
    /\ last' = [op |-> "dismissError"]
    /\ UNCHANGED <<stage, studyMaterial, quiz, upload, pending>>

\* --------------------------------------------------- page-range stage
\* Math.max(1, Number(value)).
ClampStart(v) == IF v > 1 THEN v ELSE 1

\* ClampEnd without the upper limit.
ClampEnd_Unclamped(v, total) == v

\* Math.min(totalPages, Number(value)).
ClampEnd(v, total) == IF v < total THEN v ELSE total

SetStartPage(v) ==
    /\ stage = "SelectPageRange"
    /\ v # startPage
    /\ startPage' = ClampStart(v)
    /\ last' = [op |-> "setStartPage", value |-> v]
    /\ UNCHANGED <<stage, studyMaterial, error, quiz, isParsing, fileName, file,
                   totalPages, endPage, pending>>

SetEndPage(v) ==
    /\ stage = "SelectPageRange"
    /\ v # endPage
    /\ endPage' = ClampEnd(v, totalPages)
    /\ last' = [op |-> "setEndPage", value |-> v]
    /\ UNCHANGED <<stage, studyMaterial, error, quiz, isParsing, fileName, file,
                   totalPages, startPage, pending>>

\* ConfirmRejects without the comparison of the two bounds.
ConfirmRejects_NoOrderTest(f, s, e, total) == f = NULL \/ s < 1 \/ e > total

\* The test that makes handleConfirmPageRange report an error: line 158.
ConfirmRejects(f, s, e, total) == f = NULL \/ s > e \/ s < 1 \/ e > total

\* textContent.items.map(item => item.str).join(' ')
PageText(items) == Join(items, <<" ">>)

\* ExtractLoop stopping one page early (i < endPage).
RECURSIVE ExtractLoop_StopsEarly(_, _, _, _)
ExtractLoop_StopsEarly(pages, i, e, text) ==
    IF i >= e THEN text
    ELSE ExtractLoop_StopsEarly(pages, i + 1, e,
                                text \o PageText(pages[i]) \o <<"\n\n">>)

\* The for loop of handleConfirmPageRange from page i on, text being the
\* value of extractedText so far.
RECURSIVE ExtractLoop(_, _, _, _)
ExtractLoop(pages, i, e, text) ==
    IF i > e THEN text
    ELSE ExtractLoop(pages, i + 1, e, text \o PageText(pages[i]) \o <<"\n\n">>)

ExtractedText(pages, s, e) == ExtractLoop(pages, s, e, <<>>)

\* Whether getDocument and every getPage(i), s <= i <= e, resolve.
ExtractionSucceeds(f, s, e) ==
    /\ f.type = <<"application/pdf">> /\ f.readable
    /\ e <= Len(f.pages)

\* handleConfirmPageRange up to its first await: lines 158-167.
handleConfirmPageRange ==
    /\ stage = "SelectPageRange"
    /\ IF ConfirmRejects(file, startPage, endPage, totalPages)
       THEN /\ error' = Str(t("error_invalid_page_range"))
            /\ last' = [op |-> "handleConfirmPageRange", outcome |-> "rejected",
                        startPage |-> startPage, endPage |-> endPage,
                        totalPages |-> totalPages, file |-> file]
            /\ UNCHANGED <<stage, extractions>>
       ELSE /\ Pending < MaxPending
            /\ error' = NULL
            /\ stage' = "Processing"
            /\ extractions' = Append(extractions,
                   [file |-> file, startPage |-> startPage, endPage |-> endPage,
                    totalPages |-> totalPages])
            /\ last' = [op |-> "handleConfirmPageRange", outcome |-> "extracting",
                        startPage |-> startPage, endPage |-> endPage,
                        totalPages |-> totalPages, file |-> file]
    /\ UNCHANGED <<studyMaterial, quiz, upload, loads, timers, generations>>

\* The continue button's disabled attribute: line 478.
ConfirmButtonEnabled ==
    ~(startPage > endPage \/ startPage < 1 \/ endPage > totalPages)

\* A click on the continue button, which is disabled on an invalid range.
ClickConfirmPageRange == ConfirmButtonEnabled /\ handleConfirmPageRange

\* The handler called while the button is disabled (a direct call).
CallConfirmPageRange == ~ConfirmButtonEnabled /\ handleConfirmPageRange

\* The extraction resolved: lines 178-179.
ExtractDone(i) ==
    LET x == extractions[i] IN
    /\ ExtractionSucceeds(x.file, x.startPage, x.endPage)
    /\ studyMaterial' = Str(ExtractedText(x.file.pages, x.startPage, x.endPage))
    /\ stage' = "SelectType"
    /\ extractions' = RemoveAt(extractions, i)
    /\ last' = [op |-> "extractDone", file |-> x.file, startPage |-> x.startPage,
                endPage |-> x.endPage, totalPages |-> x.totalPages]
    /\ UNCHANGED <<error, quiz, upload, loads, timers, generations>>

\* The extraction rejected: lines 181-185.
ExtractFailed(i) ==
    LET x == extractions[i] IN
    /\ ~ExtractionSucceeds(x.file, x.startPage, x.endPage)
    /\ error' = Str(t("error_parsing_failed"))
    /\ stage' = "Upload"
    /\ extractions' = RemoveAt(extractions, i)
    /\ last' = [op |-> "extractFailed", file |-> x.file, startPage |-> x.startPage,
                endPage |-> x.endPage, totalPages |-> x.totalPages]
    /\ UNCHANGED <<studyMaterial, quiz, upload, loads, timers, generations>>

\* ------------------------------------------------- type, count, generate
handleSelectType(type) ==
    /\ stage = "SelectType"
    /\ questionType' = type
    /\ stage' = "SelectCount"
    /\ last' = [op |-> "handleSelectType", type |-> type]
    /\ UNCHANGED <<studyMaterial, error, questionCount, questions,
                   currentQuestionIndex, userAnswers, feedback, upload, pending>>

SetQuestionCount(n) ==
    /\ stage = "SelectCount"
    /\ n # questionCount
    /\ questionCount' = n
    /\ last' = [op |-> "setQuestionCount", value |-> n]
    /\ UNCHANGED <<stage, studyMaterial, error, questionType, questions,
                   currentQuestionIndex, userAnswers, feedback, upload, pending>>

\* handleGenerateQuestions up to its await: lines 194-198.
handleGenerateQuestions ==
    /\ stage = "SelectCount"
    /\ IF questionType = "null" \/ ~Truthy(studyMaterial)
       THEN /\ last' = [op |-> "handleGenerateQuestions", outcome |-> "ignored"]
            /\ UNCHANGED <<stage, error, generations>>
       ELSE /\ Pending < MaxPending
            /\ stage' = "Generating"
            /\ error' = NULL
            /\ generations' = Append(generations,
                   [studyMaterial |-> studyMaterial, type |-> questionType,
                    count |-> questionCount])
            /\ last' = [op |-> "handleGenerateQuestions", outcome |-> "calling"]
    /\ UNCHANGED <<studyMaterial, quiz, upload, loads, timers, extractions>>

\* GenerateCatch sending the user back to the choice of a type.
GenerateCatch_BackToType ==
    /\ error' = Str(t("error_generation_failed"))
    /\ stage' = "SelectType"
    /\ UNCHANGED quiz

\* The catch block of handleGenerateQuestions: lines 207-210.
GenerateCatch ==
    /\ error' = Str(t("error_generation_failed"))
    /\ stage' = "SelectCount"
    /\ UNCHANGED quiz

\* Lines 202-206.
RecordQuestions(generated) ==
    /\ questions' = generated
    /\ currentQuestionIndex' = 0
    /\ userAnswers' = EmptyMap
    /\ feedback' = EmptyMap
    /\ stage' = "Answering"
    /\ UNCHANGED <<error, questionType, questionCount>>

\* generateQuestions resolved with the array generated.
GenerationReturned(i, generated) ==
    /\ i \in 1..Len(generations)
    /\ IF Len(generated) = 0 THEN GenerateCatch ELSE RecordQuestions(generated)
    /\ generations' = RemoveAt(generations, i)
    /\ last' = [op |-> "generationReturned", generated |-> generated]
    /\ UNCHANGED <<studyMaterial, upload, loads, timers, extractions>>

\* generateQuestions rejected (no API key, a failed request, an unparsable
\* or non-array response).
GenerationThrew(i) ==
    /\ i \in 1..Len(generations)
    /\ GenerateCatch
    /\ generations' = RemoveAt(generations, i)
    /\ last' = [op |-> "generationThrew"]
    /\ UNCHANGED <<studyMaterial, upload, loads, timers, extractions>>

\* -------------------------------------------------------- quiz runtime
\* questions[currentQuestionIndex] (the list is 1-based here).
CurrentQuestion == questions[currentQuestionIndex + 1]
IsMcq(q) == "options" \in DOMAIN q
IsTf(q) == "answer" \in DOMAIN q /\ q.answer \in BOOLEAN
\* feedback[currentQuestionIndex] !== undefined
HasAnswered == currentQuestionIndex \in DOMAIN feedback

\* String(b) of a boolean.
BoolToString(b) == IF b THEN <<"true">> ELSE <<"false">>

\* The values the answer buttons of a question pass to handleAnswerSelect.
AnswerButtons(q) ==
    IF IsMcq(q) THEN {q.options[k] : k \in 1..Len(q.options)}
    ELSE IF IsTf(q) THEN {<<"true">>, <<"false">>}
    ELSE {}

\* Every value an answer button of some generated question can pass.
AnswerValues == UNION {AnswerButtons(q) : q \in QuestionPool}

handleAnswerSelect(answer) ==
    /\ stage = "Answering"
    /\ answer \in AnswerButtons(CurrentQuestion)
    /\ ~HasAnswered
    /\ userAnswers' = Put(userAnswers, currentQuestionIndex, answer)
    /\ last' = [op |-> "handleAnswerSelect", answer |-> answer]
    /\ UNCHANGED <<stage, studyMaterial, error, questionType, questionCount,
                   questions, currentQuestionIndex, feedback, upload, pending>>

\* FeedbackFor taking any recorded answer to a multiple-choice question for
\* the correct one.
FeedbackFor_McAlwaysCorrect(q, userAnswer) ==
    LET isCorrect ==
            IF IsMcq(q) THEN TRUE
            ELSE IF "answer" \in DOMAIN q THEN userAnswer = Str(BoolToString(q.answer))
            ELSE FALSE
        correctAnswerText ==
            IF IsMcq(q) THEN q.correctAnswer
            ELSE IF "answer" \in DOMAIN q
                 THEN (IF q.answer THEN t("true") ELSE t("false"))
            ELSE <<>>
    IN  IF isCorrect THEN t("correct_feedback")
        ELSE t("incorrect_feedback") \o <<" ">> \o correctAnswerText

\* FeedbackFor naming the boolean of a true/false question by String(answer)
\* instead of the localized word.
FeedbackFor_TfRawBoolean(q, userAnswer) ==
    LET isCorrect ==
            IF IsMcq(q) THEN userAnswer = Str(q.correctAnswer)
            ELSE IF "answer" \in DOMAIN q THEN userAnswer = Str(BoolToString(q.answer))
            ELSE FALSE
        correctAnswerText ==
            IF IsMcq(q) THEN q.correctAnswer
            ELSE IF "answer" \in DOMAIN q THEN BoolToString(q.answer)
            ELSE <<>>
    IN  IF isCorrect THEN t("correct_feedback")
        ELSE t("incorrect_feedback") \o <<" ">> \o correctAnswerText

\* The onClick of an answer button without its test of hasAnswered.
ClickAnsweredButton_Unguarded(answer) ==
    /\ stage = "Answering"
    /\ answer \in AnswerButtons(CurrentQuestion)
    /\ HasAnswered
    /\ userAnswers' = Put(userAnswers, currentQuestionIndex, answer)
    /\ last' = [op |-> "answerClick", answer |-> answer, outcome |-> "ignored"]
    /\ UNCHANGED <<stage, studyMaterial, error, questionType, questionCount,
                   questions, currentQuestionIndex, feedback, upload, pending>>

\* The onClick of an answer button of a question that has feedback,
\* () => !hasAnswered && handleAnswerSelect(option): lines 557 and 584 (the
\* button is disabled as well).
ClickAnsweredButton(answer) ==
    /\ stage = "Answering"
    /\ answer \in AnswerButtons(CurrentQuestion)
    /\ HasAnswered
    /\ last' = [op |-> "answerClick", answer |-> answer, outcome |-> "ignored"]
    /\ UNCHANGED <<session, pending>>

\* The feedback text handleCheckAnswer computes for question q and the
\* recorded answer (NULL when none is recorded): lines 221-241.
FeedbackFor(q, userAnswer) ==
    LET isCorrect ==
            IF IsMcq(q) THEN userAnswer = Str(q.correctAnswer)
            ELSE IF "answer" \in DOMAIN q THEN userAnswer = Str(BoolToString(q.answer))
            ELSE FALSE
        correctAnswerText ==
            IF IsMcq(q) THEN q.correctAnswer
            ELSE IF "answer" \in DOMAIN q
                 THEN (IF q.answer THEN t("true") ELSE t("false"))
            ELSE <<>>
    IN  IF isCorrect THEN t("correct_feedback")
        ELSE t("incorrect_feedback") \o <<" ">> \o correctAnswerText

RecordedAnswer ==
    IF currentQuestionIndex \in DOMAIN userAnswers
    THEN Str(userAnswers[currentQuestionIndex]) ELSE NULL

\* The check button enabled before any answer is selected.
CheckButtonEnabled_WithoutAnswer ==
    /\ IsMcq(CurrentQuestion) \/ IsTf(CurrentQuestion)
    /\ ~HasAnswered

\* The check button is rendered and not disabled: lines 602-603.
CheckButtonEnabled ==
    /\ IsMcq(CurrentQuestion) \/ IsTf(CurrentQuestion)
    /\ ~HasAnswered
    /\ Truthy(RecordedAnswer)

handleCheckAnswer ==
    /\ stage = "Answering"
    /\ CheckButtonEnabled
    /\ feedback' = Put(feedback, currentQuestionIndex,
                       FeedbackFor(CurrentQuestion, RecordedAnswer))
    /\ last' = [op |-> "handleCheckAnswer"]
    /\ UNCHANGED <<stage, studyMaterial, error, questionType, questionCount,
                   questions, currentQuestionIndex, userAnswers, upload, pending>>

\* handleNextQuestion without the test of the last index.
handleNextQuestion_NoLastTest ==
    /\ stage = "Answering"
    /\ HasAnswered
    /\ currentQuestionIndex' = currentQuestionIndex + 1
    /\ last' = [op |-> "handleNextQuestion"]
    /\ UNCHANGED <<stage, studyMaterial, error, questionType, questionCount,
                   questions, userAnswers, feedback, upload, pending>>

\* handleNextQuestion completing the quiz at any index.
handleNextQuestion_AlwaysCompletes ==
    /\ stage = "Answering"
    /\ HasAnswered
    /\ stage' = "Completed"
    /\ last' = [op |-> "handleNextQuestion"]
    /\ UNCHANGED <<studyMaterial, error, questionType, questionCount, questions,
                   currentQuestionIndex, userAnswers, feedback, upload, pending>>

handleNextQuestion ==
    /\ stage = "Answering"
    /\ HasAnswered
    /\ IF currentQuestionIndex < Len(questions) - 1
       THEN currentQuestionIndex' = currentQuestionIndex + 1 /\ UNCHANGED stage
       ELSE stage' = "Completed" /\ UNCHANGED currentQuestionIndex
    /\ last' = [op |-> "handleNextQuestion"]
    /\ UNCHANGED <<studyMaterial, error, questionType, questionCount, questions,
                   userAnswers, feedback, upload, pending>>

\* The resets shared by handleGenerateMore and handleReturnToStart.
ResetQuiz ==
    /\ questions' = <<>>
    /\ currentQuestionIndex' = 0
    /\ userAnswers' = EmptyMap
    /\ feedback' = EmptyMap
    /\ error' = NULL
    /\ questionType' = "null"
    /\ questionCount' = DefaultQuestionCount

\* handleGenerateMore keeping the question type chosen for the last quiz.
handleGenerateMore_KeepsType ==
    /\ stage = "Completed"
    /\ questions' = <<>>
    /\ currentQuestionIndex' = 0
    /\ userAnswers' = EmptyMap
    /\ feedback' = EmptyMap
    /\ error' = NULL
    /\ questionCount' = DefaultQuestionCount
    /\ stage' = "SelectType"
    /\ last' = [op |-> "handleGenerateMore"]
    /\ UNCHANGED <<questionType, studyMaterial, upload, pending>>

handleGenerateMore ==
    /\ stage = "Completed"
    /\ ResetQuiz
    /\ stage' = "SelectType"
    /\ last' = [op |-> "handleGenerateMore"]
    /\ UNCHANGED <<studyMaterial, upload, pending>>

\* handleReturnToStart dropping the study material as well.
handleReturnToStart_DropsMaterial ==
    /\ stage = "Completed"
    /\ ResetQuiz
    /\ studyMaterial' = NULL
    /\ stage' = "Upload"
    /\ last' = [op |-> "handleReturnToStart"]
    /\ UNCHANGED <<upload, pending>>

handleReturnToStart ==
    /\ stage = "Completed"
    /\ ResetQuiz
    /\ stage' = "Upload"
    /\ last' = [op |-> "handleReturnToStart"]
    /\ UNCHANGED <<studyMaterial, upload, pending>>

\* ---------------------------------------------------------------- back
\* BackFromPageRange without the call of handleResetUpload.
BackFromPageRange_KeepsFile ==
    /\ stage = "SelectPageRange"
    /\ error' = NULL
    /\ stage' = "Upload"
    /\ UNCHANGED <<studyMaterial, quiz, upload>>

BackFromPageRange ==
    /\ stage = "SelectPageRange"
    /\ handleResetUpload
    /\ stage' = "Upload"
    /\ UNCHANGED <<quiz, isParsing>>

BackFromSelectType ==
    /\ stage = "SelectType"
    /\ error' = NULL
    /\ stage' = "Upload"
    /\ UNCHANGED <<studyMaterial, quiz, upload>>

BackFromSelectCount ==
    /\ stage = "SelectCount"
    /\ error' = NULL
    /\ stage' = "SelectType"
    /\ UNCHANGED <<studyMaterial, quiz, upload>>

\* BackFromAnswering without the reset of the feedback map.
BackFromAnswering_KeepsFeedback ==
    /\ stage = "Answering"
    /\ error' = NULL
    /\ questions' = <<>>
    /\ currentQuestionIndex' = 0
    /\ userAnswers' = EmptyMap
    /\ stage' = "SelectType"
    /\ UNCHANGED <<studyMaterial, questionType, questionCount, feedback, upload>>

\* BackFromAnswering forgetting the question type as well.
BackFromAnswering_ClearsType ==
    /\ stage = "Answering"
    /\ error' = NULL
    /\ questions' = <<>>
    /\ currentQuestionIndex' = 0
    /\ userAnswers' = EmptyMap
    /\ feedback' = EmptyMap
    /\ questionType' = "null"
    /\ stage' = "SelectType"
    /\ UNCHANGED <<studyMaterial, questionCount, upload>>

\* case AppStage.Answering of handleBack: lines 303-309.
BackFromAnswering ==
    /\ stage = "Answering"
    /\ error' = NULL
    /\ questions' = <<>>
    /\ currentQuestionIndex' = 0
    /\ userAnswers' = EmptyMap
    /\ feedback' = EmptyMap
    /\ stage' = "SelectType"
    /\ UNCHANGED <<studyMaterial, questionType, questionCount, upload>>

\* The back button, rendered in the four stages of the switch.
handleBack ==
    /\ \/ BackFromPageRange
       \/ BackFromSelectType
       \/ BackFromSelectCount
       \/ BackFromAnswering
    /\ last' = [op |-> "handleBack", from |-> stage]
    /\ UNCHANGED pending

\* ------------------------------------------------------- specification
\* The user's actions up to the analysis of the material, the files offered
\* to the picker being drawn from files.
UploadAction(files) ==
    \/ Start
    \/ \E f \in files : handleFileChange(f)
    \/ \E f \in files : handleDrop(f)
    \/ \E v \in TypedTexts : HandleTextChange(v)
    \/ ClickAnalyze
    \/ ClickResetUpload
    \/ DismissError
    \/ handleBack

PageRangeAction ==
    \/ \E v \in PageInputs : SetStartPage(v)
    \/ \E v \in PageInputs : SetEndPage(v)
    \/ ClickConfirmPageRange

QuizAction ==
    \/ \E type \in QuestionTypes : handleSelectType(type)
    \/ \E n \in CountInputs : SetQuestionCount(n)
    \/ handleGenerateQuestions
    \/ \E a \in AnswerValues : handleAnswerSelect(a)
    \/ handleCheckAnswer
    \/ handleNextQuestion
    \/ handleGenerateMore
    \/ handleReturnToStart

\* The completions of the outstanding asynchronous operations, in any order.
TextLoadCompletion ==
    \/ \E i \in 1..Len(loads) : LoadTextDone(i)
    \/ \E i \in 1..Len(loads) : LoadFailed(i)
    \/ TimerFired

ImageLoadCompletion == \E i \in 1..Len(loads) : LoadImageDone(i)

PdfCompletion ==
    \/ \E i \in 1..Len(loads) : LoadPdfDone(i)
    \/ \E i \in 1..Len(extractions) : ExtractDone(i)
    \/ \E i \in 1..Len(extractions) : ExtractFailed(i)

GenerationCompletion ==
    \/ \E i \in 1..Len(generations) : \E g \in GenResults : GenerationReturned(i, g)
    \/ \E i \in 1..Len(generations) : GenerationThrew(i)

\* The whole session.
Next ==
    \/ UploadAction(Files)
    \/ PageRangeAction
    \/ QuizAction
    \/ TextLoadCompletion
    \/ ImageLoadCompletion
    \/ PdfCompletion
    \/ GenerationCompletion

Spec == Init /\ [][Next]_vars

\* The session of a user who loads files of every kind and selects page
\* ranges, up to the choice of a question type.
NextUpload ==
    \/ UploadAction(Files)
    \/ PageRangeAction
    \/ TextLoadCompletion
    \/ ImageLoadCompletion
    \/ PdfCompletion

SpecUpload == Init /\ [][NextUpload]_vars

\* The same, the handlers being called directly as well (a disabled button
\* does not stand in front of them).
NextHandlers == NextUpload \/ CallConfirmPageRange

SpecHandlers == Init /\ [][NextHandlers]_vars

\* The session of a user who loads a text file or a PDF that cannot be read,
\* and takes quizzes.
NextQuiz ==
    \/ UploadAction(QuizFiles)
    \/ QuizAction
    \/ TextLoadCompletion
    \/ GenerationCompletion

SpecQuiz == Init /\ [][NextQuiz]_vars

\* The quiz session, the answer buttons being clicked after the feedback is
\* shown as well.
NextAnswers ==
    \/ NextQuiz
    \/ \E a \in AnswerValues : ClickAnsweredButton(a)

SpecAnswers == Init /\ [][NextAnswers]_vars

\* The quiz session in which the timer of handleAnalyze, once set, fires
\* (setTimeout of 1500 ms); nothing makes the file reads or the generator
\* call return.
SpecQuizTimer == Init /\ [][NextQuiz]_vars /\ WF_vars(TimerFired)

\* ---------------------------------------------------------------- claims
LoadCompletions == {"loadImage", "loadPdf", "loadText", "loadFailed"}
ExtractCompletions == {"extractDone", "extractFailed"}
GenerationCompletions == {"generationReturned", "generationThrew"}

\* C1: a file load that completes after the session has left Upload, a timer
\* that fires or an extraction that completes after it has left Processing
\* and a generator call that completes after it has left Generating change
\* no field of the session.
C1_StaleResultIgnored ==
    [][/\ (last'.op \in LoadCompletions /\ stage # "Upload") => UNCHANGED session
       /\ (last'.op = "timer" /\ stage # "Processing") => UNCHANGED session
       /\ (last'.op \in ExtractCompletions /\ stage # "Processing")
              => UNCHANGED session
       /\ (last'.op \in GenerationCompletions /\ stage # "Generating")
              => UNCHANGED session]_vars

\* C2: when the load of an image file completes, the image is the study
\* material, the stage is Processing (never SelectPageRange) and no error is
\* reported, whatever the study material was when the load began.
C2_ImageLoadAnalyzes ==
    last.op = "loadImage" =>
        /\ studyMaterial = ImagePart(fileToBase64(last.file), last.file.type)
        /\ stage = "Processing"
        /\ error = NULL

\* C3: a PDF load leaves the stage at Upload while the file is read, and its
\* completion sets the stage to SelectPageRange, totalPages to the number of
\* pages N, startPage to 1 and endPage to N: no step of the load sets
\* Processing.
C3_PdfLoadSelectsPageRange ==
    [][/\ (/\ last'.op \in {"handleDrop", "handleFileChange"}
           /\ FileKind(last'.file) = "pdf")
              => stage' = "Upload"
       /\ last'.op = "loadPdf"
              => /\ stage' = "SelectPageRange"
                 /\ totalPages' = Len(last'.file.pages)
                 /\ startPage' = 1
                 /\ endPage' = Len(last'.file.pages)]_vars

C3_Witness ==
    /\ last.op = "loadPdf"
    /\ stage = "SelectPageRange"
    /\ totalPages = MaxPages

\* C4: confirming an invalid range (startPage > endPage, startPage < 1 or
\* endPage > totalPages) reports the invalid-page-range error, leaves the
\* stage at SelectPageRange, starts no extraction and leaves the study
\* material, the file and the page bounds as they were.
C4_InvalidRangeRejected ==
    [][(/\ last'.op = "handleConfirmPageRange"
        /\ (startPage > endPage \/ startPage < 1 \/ endPage > totalPages))
           => /\ error' = Str(t("error_invalid_page_range"))
              /\ stage = "SelectPageRange" /\ stage' = "SelectPageRange"
              /\ UNCHANGED <<studyMaterial, file, fileName, totalPages, startPage,
                             endPage, extractions>>]_vars

C4_Witness ==
    /\ last.op = "handleConfirmPageRange"
    /\ last.file # NULL
    /\ last.startPage > last.endPage
    /\ stage = "SelectPageRange"
    /\ error = Str(t("error_invalid_page_range"))

ReadablePdf(f) == f # NULL /\ f.type = <<"application/pdf">> /\ f.readable

\* The text items of pages s..e, page after page.
RECURSIVE ItemsOfPages(_, _, _)
ItemsOfPages(pages, s, e) ==
    IF s > e THEN <<>> ELSE Join(pages[s], <<>>) \o ItemsOfPages(pages, s + 1, e)

IsSeparator(token) == token \in {" ", "\n\n"}
Words(text) == SelectSeq(text, LAMBDA token : ~IsSeparator(token))

\* C5: an extraction confirmed with 1 <= startPage <= endPage <= totalPages
\* on a readable PDF never fails, and when it completes the study material is
\* the text of exactly the pages startPage..endPage in ascending order, the
\* stage is SelectType and no error is set.
C5_ValidRangeExtracts ==
    /\ last.op = "extractFailed"
           => ~(/\ ReadablePdf(last.file)
                /\ 1 <= last.startPage
                /\ last.startPage <= last.endPage
                /\ last.endPage <= last.totalPages)
    /\ last.op = "extractDone"
           => /\ stage = "SelectType"
              /\ error = NULL
              /\ IsString(studyMaterial)
              /\ Words(studyMaterial.string)
                     = ItemsOfPages(last.file.pages, last.startPage, last.endPage)

\* The texts of pages s..e, in page order.
PageTexts(pages, s, e) == [k \in 1..(e - s + 1) |-> PageText(pages[s + k - 1])]

\* C6 as stated: the extracted text is the page texts joined with "\n\n",
\* nothing following the last page.
C6_BlankLineBetweenPages ==
    last.op = "extractDone" =>
        studyMaterial = Str(Join(PageTexts(last.file.pages, last.startPage,
                                           last.endPage), <<"\n\n">>))

\* C6 as amended: the extracted text is every page text followed by "\n\n",
\* the last page included; for startPage = 3 and endPage = 4 it is
\* page-3-text + "\n\n" + page-4-text + "\n\n".
C6_BlankLineAfterEachPage ==
    last.op = "extractDone" =>
        /\ studyMaterial = Str(Join(PageTexts(last.file.pages, last.startPage,
                                              last.endPage), <<"\n\n">>)
                               \o <<"\n\n">>)
        /\ (last.startPage = 3 /\ last.endPage = 4)
               => studyMaterial.string
                      = PageText(last.file.pages[3]) \o <<"\n\n">>
                        \o PageText(last.file.pages[4]) \o <<"\n\n">>

C6_Witness ==
    /\ last.op = "extractDone"
    /\ last.startPage = 3
    /\ last.endPage = 4
    /\ stage = "SelectType"

\* C7 as stated: in SelectPageRange, 1 <= startPage <= endPage <= totalPages.
C7_PageBoundsOrdered ==
    stage = "SelectPageRange" =>
        1 <= startPage /\ startPage <= endPage /\ endPage <= totalPages

\* C7 as amended: in SelectPageRange, after any edits of the page inputs,
\* startPage >= 1 and endPage <= totalPages (startPage may exceed endPage or
\* totalPages and endPage may be below 1).
C7_PageBoundsClamped ==
    stage = "SelectPageRange" => startPage >= 1 /\ endPage <= totalPages

C7_Witness ==
    /\ stage = "SelectPageRange"
    /\ last.op = "setEndPage"
    /\ last.value > totalPages
    /\ endPage = totalPages
    /\ startPage > 1

QuestionIndices == 0..(Len(questions) - 1)

\* C8: in every state the answer map and the feedback map hold only keys i
\* with 0 <= i < questions.length, and every step that replaces or clears the
\* question list (a generation returning a non-empty list, handleGenerateMore,
\* handleReturnToStart, handleBack from Answering) leaves both maps empty.
C8_MapsKeyedByQuestions ==
    /\ [](/\ DOMAIN userAnswers \subseteq QuestionIndices
          /\ DOMAIN feedback \subseteq QuestionIndices)
    /\ [][(\/ questions' # questions
           \/ (last'.op = "generationReturned" /\ last'.generated # <<>>)
           \/ last'.op \in {"handleGenerateMore", "handleReturnToStart"}
           \/ (last'.op = "handleBack" /\ last'.from = "Answering"))
              => (userAnswers' = EmptyMap /\ feedback' = EmptyMap)]_vars

\* A quiz answered to its end (both maps then hold a key) and left by
\* handleReturnToStart.
C8_Witness ==
    /\ last.op = "handleReturnToStart"
    /\ questions = <<>>
    /\ userAnswers = EmptyMap
    /\ feedback = EmptyMap
    /\ stage = "Upload"

\* C9: when generateQuestions throws or returns an empty list, the stage
\* becomes SelectCount, the error is the generation-failed message, and
\* questionType, questionCount, the study material, the questions, the answers
\* and the feedback are what they were.
C9_GenerationFailureKeepsChoices ==
    [][(\/ last'.op = "generationThrew"
        \/ (last'.op = "generationReturned" /\ last'.generated = <<>>))
           => /\ stage' = "SelectCount"
              /\ error' = Str(t("error_generation_failed"))
              /\ UNCHANGED <<questionType, questionCount, studyMaterial,
                             questions, userAnswers, feedback>>]_vars

C9_Witness ==
    /\ last.op = "generationReturned"
    /\ last.generated = <<>>
    /\ stage = "SelectCount"
    /\ questionCount = MinQuestionCount
    /\ error = Str(t("error_generation_failed"))

\* C10: when generateQuestions returns a non-empty list, the stage is
\* Answering, questions is the list returned, the answer and feedback maps are
\* empty, the current index is 0 and no error is set.
C10_GenerationSuccessStartsQuiz ==
    (last.op = "generationReturned" /\ last.generated # <<>>) =>
        /\ stage = "Answering"
        /\ questions = last.generated
        /\ userAnswers = EmptyMap
        /\ feedback = EmptyMap
        /\ currentQuestionIndex = 0
        /\ error = NULL

\* C11: handleNextQuestion called with currentQuestionIndex =
\* questions.length - 1 sets the stage to Completed; called with a smaller
\* index it adds exactly 1 to the index and leaves the stage at Answering; in
\* both cases questions, userAnswers and feedback are unchanged.
C11_NextAdvancesOrCompletes ==
    [][last'.op = "handleNextQuestion"
           => /\ currentQuestionIndex = Len(questions) - 1
                     => stage' = "Completed"
              /\ currentQuestionIndex < Len(questions) - 1
                     => /\ currentQuestionIndex' = currentQuestionIndex + 1
                        /\ stage = "Answering" /\ stage' = "Answering"
              /\ UNCHANGED <<questions, userAnswers, feedback>>]_vars

\* The second question of two left by handleNextQuestion.
C11_Witness ==
    /\ last.op = "handleNextQuestion"
    /\ stage = "Completed"
    /\ Len(questions) = MaxQuestions
    /\ currentQuestionIndex = MaxQuestions - 1
    /\ DOMAIN feedback = QuestionIndices

\* C12: handleGenerateMore, from Completed, empties questions, userAnswers
\* and feedback, sets questionCount to 5 and questionType to null and the
\* stage to SelectType; studyMaterial, file, fileName and the page bounds are
\* what they were.
C12_GenerateMoreResetsQuiz ==
    [][last'.op = "handleGenerateMore"
           => /\ stage = "Completed"
              /\ questions' = <<>>
              /\ userAnswers' = EmptyMap
              /\ feedback' = EmptyMap
              /\ questionCount' = 5
              /\ questionType' = "null"
              /\ stage' = "SelectType"
              /\ UNCHANGED <<studyMaterial, file, fileName, totalPages,
                             startPage, endPage>>]_vars

C12_Witness ==
    /\ last.op = "handleGenerateMore"
    /\ stage = "SelectType"
    /\ questions = <<>>
    /\ questionType = "null"
    /\ questionCount = 5
    /\ Truthy(studyMaterial)
    /\ file # NULL

\* C13: handleReturnToStart, from Completed, empties questions, userAnswers
\* and feedback, sets the index to 0, questionType to null and questionCount
\* to 5 and the stage to Upload; studyMaterial, file, fileName and the page
\* bounds are what they were.
C13_ReturnToStartKeepsMaterial ==
    [][last'.op = "handleReturnToStart"
           => /\ stage = "Completed"
              /\ questions' = <<>>
              /\ userAnswers' = EmptyMap
              /\ feedback' = EmptyMap
              /\ currentQuestionIndex' = 0
              /\ questionType' = "null"
              /\ questionCount' = 5
              /\ stage' = "Upload"
              /\ UNCHANGED <<studyMaterial, file, fileName, totalPages,
                             startPage, endPage>>]_vars

C13_Witness ==
    /\ last.op = "handleReturnToStart"
    /\ stage = "Upload"
    /\ currentQuestionIndex = 0
    /\ questionType = "null"
    /\ Truthy(studyMaterial)
    /\ file # NULL
    /\ fileName # <<>>

\* The entries of the feedback map other than the one at index i are kept,
\* and the map gains the key i.
OnlyFeedbackAt(i) ==
    /\ DOMAIN feedback' = DOMAIN feedback \cup {i}
    /\ \A k \in DOMAIN feedback \ {i} : feedback'[k] = feedback[k]

\* C14: handleCheckAnswer on a multiple-choice question writes, at the
\* current index, the "correct" feedback when the recorded answer equals
\* correctAnswer, and for any other non-empty recorded answer the "incorrect"
\* feedback followed (after one space) by the text of correctAnswer; no other
\* index of the feedback map changes.
C14_McFeedback ==
    [][(last'.op = "handleCheckAnswer" /\ IsMcq(CurrentQuestion))
           => LET q == CurrentQuestion
                  a == userAnswers[currentQuestionIndex]
              IN  /\ a # <<>>
                  /\ a = q.correctAnswer
                         => feedback'[currentQuestionIndex] = t("correct_feedback")
                  /\ a # q.correctAnswer
                         => feedback'[currentQuestionIndex]
                                = t("incorrect_feedback") \o <<" ">> \o q.correctAnswer
                  /\ OnlyFeedbackAt(currentQuestionIndex)]_vars

\* A wrong option checked on the second question, the first one checked
\* before it.
C14_Witness ==
    /\ last.op = "handleCheckAnswer"
    /\ stage = "Answering"
    /\ currentQuestionIndex = 1
    /\ IsMcq(CurrentQuestion)
    /\ userAnswers[1] # CurrentQuestion.correctAnswer
    /\ feedback[1] = t("incorrect_feedback") \o <<" ">> \o CurrentQuestion.correctAnswer
    /\ 0 \in DOMAIN feedback

\* C15: handleCheckAnswer on a true/false question writes the "correct"
\* feedback exactly when the recorded answer is the string of the question's
\* boolean ("true" for true, "false" for false), and otherwise the
\* "incorrect" feedback followed (after one space) by the localized word for
\* the question's boolean.
C15_TfFeedback ==
    [][(last'.op = "handleCheckAnswer" /\ IsTf(CurrentQuestion)
            /\ ~IsMcq(CurrentQuestion))
           => LET q == CurrentQuestion
                  a == userAnswers[currentQuestionIndex]
                  matches == \/ (a = <<"true">> /\ q.answer = TRUE)
                             \/ (a = <<"false">> /\ q.answer = FALSE)
                  word == IF q.answer THEN t("true") ELSE t("false")
                  written == feedback'[currentQuestionIndex]
              IN  /\ (written = t("correct_feedback")) <=> matches
                  /\ ~matches
                         => written = t("incorrect_feedback") \o <<" ">> \o word]_vars

\* "true" checked against a question whose answer is false.
C15_Witness ==
    /\ last.op = "handleCheckAnswer"
    /\ stage = "Answering"
    /\ CurrentQuestion = TfFalseQuestion
    /\ userAnswers[currentQuestionIndex] = <<"true">>
    /\ feedback[currentQuestionIndex]
           = t("incorrect_feedback") \o <<" ">> \o t("false")

\* C16: a click on the analyze button in Upload sets the stage to Processing
\* (and starts the timer) only when the study material is present; with no
\* study material it sets the no-material error, the stage stays Upload, no
\* timer is started and no other field of the session changes.
C16_AnalyzeNeedsMaterial ==
    [][last'.op = "handleAnalyze"
           => /\ stage = "Upload"
              /\ (stage' = "Processing" \/ timers' # timers)
                     => Truthy(studyMaterial)
              /\ Truthy(studyMaterial)
                     => stage' = "Processing" /\ timers' = timers + 1
              /\ ~Truthy(studyMaterial)
                     => /\ error' = Str(t("error_no_text"))
                        /\ stage' = "Upload"
                        /\ UNCHANGED <<studyMaterial, quiz, upload, pending>>]_vars

\* The analyze button clicked with a file loaded and no study material.
C16_Witness ==
    /\ last.op = "handleAnalyze"
    /\ ~Truthy(studyMaterial)
    /\ file # NULL
    /\ stage = "Upload"
    /\ timers = 0
    /\ error = Str(t("error_no_text"))

\* The user actions of C17 that report no error of their own.
QuietActions ==
    {"handleSelectType", "setQuestionCount", "handleAnswerSelect",
     "handleCheckAnswer", "handleNextQuestion", "textChange", "start"}

\* C17: every user action clears the error surfaced before it: after select
\* type, change count, select answer, check answer, next question, edit text
\* or start, none of which reports an error, no error is displayed.
C17_ActionClearsError ==
    [][last'.op \in QuietActions => error' = NULL]_vars

Waiting == stage \in {"Processing", "Generating"}

\* C18: whenever the stage is Processing or Generating it eventually is
\* another stage, also when the parser or the generator never returns.
C18_LeavesProcessingAndGenerating == Waiting ~> ~Waiting

ParseFailed == Str(t("error_parsing_failed"))

\* C19: after a file load that fails (a file of an unsupported kind, a PDF, a
\* Word or a text file whose read is rejected) the error is the parse-failed
\* message, the stage is Upload and file, fileName and studyMaterial are
\* empty; after a page extraction that fails the error is the parse-failed
\* message and the stage is Upload.
C19_ParseFailureReturnsToUpload ==
    /\ (\/ last.op = "loadFailed"
        \/ (last.op \in {"handleDrop", "handleFileChange"}
               /\ last.outcome = "unsupported"))
           => /\ error = ParseFailed
              /\ stage = "Upload"
              /\ file = NULL
              /\ fileName = <<>>
              /\ studyMaterial = NULL
    /\ last.op = "extractFailed"
           => error = ParseFailed /\ stage = "Upload"

\* C20: handleBack in SelectPageRange sets studyMaterial to null, fileName to
\* the empty string, file to null, totalPages to 0, startPage and endPage to
\* 1 and error to null, and the stage to Upload.
C20_BackFromPageRangeResetsUpload ==
    [][(last'.op = "handleBack" /\ last'.from = "SelectPageRange")
           => /\ studyMaterial' = NULL
              /\ fileName' = <<>>
              /\ file' = NULL
              /\ totalPages' = 0
              /\ startPage' = 1
              /\ endPage' = 1
              /\ error' = NULL
              /\ stage' = "Upload"]_vars

C20_Witness ==
    /\ last.op = "handleBack"
    /\ last.from = "SelectPageRange"
    /\ stage = "Upload"
    /\ file = NULL
    /\ totalPages = 0
    /\ loads = <<>>

\* C21: handleBack in Answering empties questions, userAnswers and feedback,
\* sets the index to 0 and the stage to SelectType; studyMaterial, the file
\* state, questionType and questionCount are what they were.
C21_BackFromAnsweringKeepsChoices ==
    [][(last'.op = "handleBack" /\ last'.from = "Answering")
           => /\ questions' = <<>>
              /\ userAnswers' = EmptyMap
              /\ feedback' = EmptyMap
              /\ currentQuestionIndex' = 0
              /\ stage' = "SelectType"
              /\ UNCHANGED <<studyMaterial, upload, questionType,
                             questionCount>>]_vars

\* Back from a quiz of true/false questions, one question requested.
C21_Witness ==
    /\ last.op = "handleBack"
    /\ last.from = "Answering"
    /\ stage = "SelectType"
    /\ questions = <<>>
    /\ questionType = "true-false"
    /\ questionCount = MinQuestionCount
    /\ Truthy(studyMaterial)

\* The steps that replace or clear the question list.
ReplacesQuestions(op) ==
    op \in {"generationReturned", "handleGenerateMore", "handleReturnToStart",
            "handleBack"}

\* C22: once an index has feedback, the answer recorded at that index does
\* not change until the question list is replaced, and a click on an answer
\* button of a question that has feedback changes nothing.
C22_AnswerFrozenAfterFeedback ==
    [][/\ last'.op = "answerClick" => UNCHANGED session
       /\ ~ReplacesQuestions(last'.op)
              => \A i \in DOMAIN feedback \cap DOMAIN userAnswers :
                     /\ i \in DOMAIN userAnswers'
                     /\ userAnswers'[i] = userAnswers[i]]_vars

\* The other option clicked after the feedback of a multiple-choice question.
C22_Witness ==
    /\ last.op = "answerClick"
    /\ stage = "Answering"
    /\ HasAnswered
    /\ IsMcq(CurrentQuestion)
    /\ last.answer # userAnswers[currentQuestionIndex]

HasAnswerFields(q) == "options" \in DOMAIN q \/ "answer" \in DOMAIN q

\* C23: a generated question that has neither an options field nor an answer
\* field is rejected: the stage is never Answering with such a question in
\* the list, and a generation returning one is treated as failed.
C23_BareQuestionRejected ==
    /\ stage = "Answering"
           => \A k \in 1..Len(questions) : HasAnswerFields(questions[k])
    /\ (/\ last.op = "generationReturned"
        /\ \E k \in 1..Len(last.generated) : ~HasAnswerFields(last.generated[k]))
           => stage = "SelectCount" /\ error = Str(t("error_generation_failed"))

\* The textarea is displayed and accepts edits.
TextInputUsable == UploadFormView /\ ~TextareaReadOnly

\* C24: in Upload, with no file loaded and no parse in progress, the
\* free-text input accepts edits, the state in which no material has been
\* entered included; while a file is loaded it does not.
C24_TextInputUsableWithoutFile ==
    /\ (stage = "Upload" /\ file = NULL /\ fileName = <<>> /\ ~isParsing)
           => TextInputUsable
    /\ (stage = "Upload" /\ file # NULL) => ~TextInputUsable

QuizStages == {"SelectType", "SelectCount", "Generating", "Answering", "Completed"}

\* C25: in SelectType, SelectCount, Generating, Answering and Completed the
\* study material is present, so that handleGenerateQuestions is never
\* ignored for lack of material, whatever the interleaving of user actions
\* with outstanding loads and timers.
C25_MaterialPresentInQuiz ==
    /\ stage \in QuizStages => Truthy(studyMaterial)
    /\ (last.op = "handleGenerateQuestions" /\ questionType # "null")
           => last.outcome = "calling"

\* C26: in Answering the question list is non-empty and
\* 0 <= currentQuestionIndex < questions.length, after any sequence of
\* generate, answer, check, next, back and completions of outstanding
\* asynchronous operations.
C26_CurrentQuestionExists ==
    stage = "Answering" =>
        /\ Len(questions) > 0
        /\ 0 <= currentQuestionIndex
        /\ currentQuestionIndex < Len(questions)

\* The last of two questions is displayed.
C26_Witness ==
    /\ stage = "Answering"
    /\ Len(questions) = MaxQuestions
    /\ currentQuestionIndex = MaxQuestions - 1
    /\ last.op = "handleNextQuestion"

\* C27: an index has feedback only if it has a recorded answer; in Answering
\* every index below currentQuestionIndex has feedback; in Completed every
\* index of the question list has feedback.
C27_FeedbackFollowsAnswers ==
    /\ DOMAIN feedback \subseteq DOMAIN userAnswers
    /\ stage = "Answering"
           => 0..(currentQuestionIndex - 1) \subseteq DOMAIN feedback
    /\ stage = "Completed" => QuestionIndices \subseteq DOMAIN feedback

\* A quiz of two questions completed.
C27_Witness ==
    /\ stage = "Completed"
    /\ last.op = "handleNextQuestion"
    /\ Len(questions) = MaxQuestions
    /\ DOMAIN feedback = QuestionIndices
    /\ DOMAIN userAnswers = QuestionIndices

\* C28: when file loads overlap, in SelectPageRange file and fileName are
\* those of the PDF whose number of pages is totalPages, and isParsing is
\* true as long as a file load is outstanding.
C28_FileStateConsistent ==
    /\ stage = "SelectPageRange"
           => /\ file # NULL
              /\ FileKind(file) = "pdf"
              /\ Len(file.pages) = totalPages
              /\ fileName = file.name
    /\ loads # <<>> => isParsing

=============================================================================
